---- MODULE Spec2Model ----
(***************************************************************************)
(* Model of the donation pipeline of Pater_Donate:                         *)
(*   src/models/Donation.js  - the Donation schema (the ledger) and the    *)
(*                             DonationService (extractVoucherHash,        *)
(*                             isDuplicateVoucher, callTrueMoneyAPI,       *)
(*                             processDonation)                            *)
(*   src/server.js           - the routes that call the service            *)
(*                                                                         *)
(* Strings that the code inspects character by character (voucher links,   *)
(* amounts handed to parseFloat) are sequences of one-character strings.   *)
(* The Thai messages of the source are written in English, one definition  *)
(* per message, with the source line beside it.                            *)
(***************************************************************************)
EXTENDS Integers, Sequences, FiniteSets, TLC

(***************************************************************************)
(* Bounds of the model.                                                    *)
(***************************************************************************)
\* number of processDonation invocations that may be in flight
NumClaims == 2

\* the clock runs from 1 to MaxTime
MaxTime == 2

\* the limits the readers ask for are 1..MaxLimit
MaxLimit == 2

\* the collections the reads are studied on hold up to MaxLedger documents
MaxLedger == 2

\* the links extractVoucherHash is studied on have up to MaxLinkLen
\* characters, after the campaign address or alone
MaxLinkLen == 5

\* the bodies callTrueMoneyAPI is studied on hold up to MaxFields amount fields
MaxFields == 2

\* server.js:164: parseInt(req.query.limit) || 10, a positive number
Limits == 1..MaxLimit

Claims == 1..NumClaims

(***************************************************************************)
(* Results of operations that either return a value or throw.              *)
(***************************************************************************)
Ok(v) == [ok |-> TRUE, value |-> v, error |-> ""]

Thrown(m) == [ok |-> FALSE, value |-> <<>>, error |-> m]

(***************************************************************************)
(* Messages (error.message of the Errors the code throws or receives).     *)
(***************************************************************************)
\* Donation.js:79,81
InvalidLinkMsg == "invalid link format"

\* Donation.js:195
DuplicateMsg == "this link has already been used"

\* Donation.js:98
ConfigMsg == "TRUEMONEY_MOBILE is not set"

\* Donation.js:176
TimeoutMsg == "API connection timed out"

\* Donation.js:130, `API Error: ${response.status} - ${errorText}`
ApiErrorMsg == "API Error: status - text"

\* Donation.js:144, the default rejection text
RejectedMsg == "cannot redeem the voucher"

\* Donation.js:169
InvalidAmountMsg == "no amount found in the voucher"

\* Donation.js:112, a rejection of fetch that is not an AbortError
NetworkMsg == "fetch failed"

\* Donation.js:128,133, response.text() / response.json() rejecting
BodyMsg == "invalid response body"

\* Donation.js:89, Donation.findOne rejecting
ReadFaultMsg == "store read failed"

\* Donation.js:213, donation.save() rejecting: the unique index on voucherHash
DupKeyMsg == "E11000 duplicate key error"

\* Donation.js:213, donation.save() rejecting: schema validation
ValidationMsg == "Donation validation failed"

\* Donation.js:213, donation.save() rejecting: the store is unavailable
StoreFaultMsg == "store write failed"

\* Donation.js:224, io.emit throwing
EmitMsg == "emit failed"

\* Donation.js:243, calling .catch on the string extractVoucherHash returned
TypeErrorMsg == "catch is not a function"

(***************************************************************************)
(* extractVoucherHash (Donation.js:64-83) on links as character sequences. *)
(***************************************************************************)
Letters == {"a","b","c","d","e","f","g","h","i","j","k","l","m","n","o","p","q",
            "r","s","t","u","v","w","x","y","z",
            "A","B","C","D","E","F","G","H","I","J","K","L","M","N","O","P","Q",
            "R","S","T","U","V","W","X","Y","Z"}

Digits == {"0","1","2","3","4","5","6","7","8","9"}

\* the character class [a-zA-Z0-9]
Alnum == Letters \cup Digits

\* the longest run of [a-zA-Z0-9] of s that starts at position i (greedy +)
RECURSIVE AlnumRun(_, _)
AlnumRun(s, i) ==
  IF i > Len(s) \/ s[i] \notin Alnum THEN <<>>
  ELSE <<s[i]>> \o AlnumRun(s, i + 1)

\* s has the literal lit at position i
HasAt(s, lit, i) ==
  /\ i >= 1
  /\ i + Len(lit) - 1 <= Len(s)
  /\ SubSeq(s, i, i + Len(lit) - 1) = lit

\* link.match(/<lit>([a-zA-Z0-9]+)/): the leftmost place where lit is
\* followed by at least one alphanumeric; match[1] is the greedy run
MatchLiteralThenAlnum(s, lit) ==
  LET hits == {i \in 1..Len(s) :
                 /\ HasAt(s, lit, i)
                 /\ AlnumRun(s, i + Len(lit)) # <<>>}
  IN IF hits = {} THEN Thrown("no match")
     ELSE LET i == CHOOSE k \in hits : \A j \in hits : k <= j
          IN Ok(AlnumRun(s, i + Len(lit)))

\* pattern 1, Donation.js:67  /v=([a-zA-Z0-9]+)/
Pattern1(s) == MatchLiteralThenAlnum(s, <<"v", "=">>)

\* pattern 2, Donation.js:68  /\/([a-zA-Z0-9]+)$/
Pattern2(s) ==
  LET hits == {i \in 1..Len(s) :
                 /\ s[i] = "/"
                 /\ i < Len(s)
                 /\ \A j \in (i + 1)..Len(s) : s[j] \in Alnum}
  IN IF hits = {} THEN Thrown("no match")
     ELSE LET i == CHOOSE k \in hits : \A j \in hits : k <= j
          IN Ok(SubSeq(s, i + 1, Len(s)))

CampaignPrefix ==
  <<"g","i","f","t",".","t","r","u","e","m","o","n","e","y",".","c","o","m",
    "/","c","a","m","p","a","i","g","n","/","?","v","=">>

\* pattern 3, Donation.js:69  /gift\.truemoney\.com\/campaign\/\?v=([a-zA-Z0-9]+)/
Pattern3(s) == MatchLiteralThenAlnum(s, CampaignPrefix)

\* an extractor that gives the empty hash instead of throwing
extractOrEmpty(link) ==
  IF Pattern1(link).ok THEN Ok(Pattern1(link).value)
  ELSE IF Pattern2(link).ok THEN Ok(Pattern2(link).value)
  ELSE IF Pattern3(link).ok THEN Ok(Pattern3(link).value)
  ELSE Ok(<<>>)

\* an extractor that tries the trailing path segment before the parameter v
extractPathFirst(link) ==
  IF Pattern2(link).ok THEN Ok(Pattern2(link).value)
  ELSE IF Pattern1(link).ok THEN Ok(Pattern1(link).value)
  ELSE IF Pattern3(link).ok THEN Ok(Pattern3(link).value)
  ELSE Thrown(InvalidLinkMsg)

\* Donation.js:64-83: the first pattern that matches gives the hash; no match
\* (and any exception of the body) is rethrown as the invalid-link Error
extractVoucherHash(link) ==
  IF Pattern1(link).ok THEN Ok(Pattern1(link).value)
  ELSE IF Pattern2(link).ok THEN Ok(Pattern2(link).value)
  ELSE IF Pattern3(link).ok THEN Ok(Pattern3(link).value)
  ELSE Thrown(InvalidLinkMsg)

(***************************************************************************)
(* JSON values of the upstream response, as far as callTrueMoneyAPI reads  *)
(* them.  A scalar is absent, a number or a string of characters.          *)
(***************************************************************************)
Undef == [t |-> "undef", n |-> 0, s |-> <<>>]

Num(n) == [t |-> "num", n |-> n, s |-> <<>>]

Str(s) == [t |-> "str", n |-> 0, s |-> s]

\* JavaScript truthiness of a scalar: undefined, 0 and "" are falsy
Truthy(v) ==
  CASE v.t = "undef" -> FALSE
    [] v.t = "num"   -> v.n # 0
    [] v.t = "str"   -> Len(v.s) > 0

\* a JavaScript number: NaN or an integer (the modelled inputs hold no ".")
NaN == [nan |-> TRUE, n |-> 0]

Number(n) == [nan |-> FALSE, n |-> n]

DigitValue(c) ==
  CASE c = "0" -> 0 [] c = "1" -> 1 [] c = "2" -> 2 [] c = "3" -> 3
    [] c = "4" -> 4 [] c = "5" -> 5 [] c = "6" -> 6 [] c = "7" -> 7
    [] c = "8" -> 8 [] c = "9" -> 9

\* the longest run of digits of s that starts at position i
RECURSIVE DigitRun(_, _)
DigitRun(s, i) ==
  IF i > Len(s) \/ s[i] \notin Digits THEN <<>>
  ELSE <<s[i]>> \o DigitRun(s, i + 1)

\* the value of a sequence of digits, most significant first
RECURSIVE DigitsValue(_)
DigitsValue(ds) ==
  IF ds = <<>> THEN 0
  ELSE 10 * DigitsValue(SubSeq(ds, 1, Len(ds) - 1)) + DigitValue(ds[Len(ds)])

\* the first position of s at or after i that holds no blank
RECURSIVE SkipBlanks(_, _)
SkipBlanks(s, i) ==
  IF i <= Len(s) /\ s[i] = " " THEN SkipBlanks(s, i + 1) ELSE i

\* parseFloat of a string: leading blanks, an optional sign, then digits; the
\* parse stops at the first other character, and no digit at all gives NaN
ParseFloatString(s) ==
  LET i    == SkipBlanks(s, 1)
      sign == IF i <= Len(s) /\ s[i] = "-" THEN -1 ELSE 1
      j    == IF i <= Len(s) /\ s[i] \in {"-", "+"} THEN i + 1 ELSE i
      ds   == DigitRun(s, j)
  IN IF ds = <<>> THEN NaN ELSE Number(sign * DigitsValue(ds))

\* parseFloat(v), Donation.js:153-163: a number is converted to its decimal
\* string and parsed back, which gives the number
parseFloat(v) ==
  CASE v.t = "undef" -> NaN
    [] v.t = "num"   -> Number(v.n)
    [] v.t = "str"   -> ParseFloatString(v.s)

\* data.status is absent, a string or an object { code, message }; an absent
\* text is the empty string (the code tests texts only by === and ||)
NoStatus == [t |-> "undef", s |-> "", code |-> "", message |-> ""]

StatusStr(s) == [t |-> "str", s |-> s, code |-> "", message |-> ""]

StatusObj(c, m) == [t |-> "obj", s |-> "", code |-> c, message |-> m]

\* data.data.voucher and data.data.my_ticket, absent or objects
NoVoucher == [present |-> FALSE, amount_baht |-> Undef, redeemed_amount_baht |-> Undef]

Voucher(a, r) == [present |-> TRUE, amount_baht |-> a, redeemed_amount_baht |-> r]

NoTicket == [present |-> FALSE, amount_baht |-> Undef]

Ticket(a) == [present |-> TRUE, amount_baht |-> a]

\* a response body without any field
EmptyData ==
  [isNull |-> FALSE, success |-> "undef", status |-> NoStatus, message |-> "",
   error |-> "", hasData |-> FALSE, voucher |-> NoVoucher, my_ticket |-> NoTicket,
   amount_bath |-> Undef, amount |-> Undef, value |-> Undef]

\* the JSON body null
NullData == [EmptyData EXCEPT !.isNull = TRUE]

\* Donation.js:133-141, reading a property of null
NullDataMsg == "cannot read properties of null"

\* Donation.js:137-141
isSuccess(data) ==
  \/ data.success = "true"
  \/ data.status.t = "str" /\ data.status.s = "success"
  \/ data.status.t = "obj" /\ data.status.code = "SUCCESS"
  \/ data.status.t = "obj" /\ data.status.message = "success"
  \/ data.hasData /\ data.voucher.present

\* Donation.js:144
errorMsg(data) ==
  IF data.message # "" THEN data.message
  ELSE IF data.error # "" THEN data.error
  ELSE IF data.status.t = "obj" /\ data.status.message # "" THEN data.status.message
  ELSE RejectedMsg

\* Donation.js:150-164: the first truthy field, parsed; 0 when none is truthy
extractAmount(data) ==
  IF data.hasData /\ data.voucher.present /\ Truthy(data.voucher.amount_baht)
    THEN parseFloat(data.voucher.amount_baht)
  ELSE IF data.hasData /\ data.voucher.present
          /\ Truthy(data.voucher.redeemed_amount_baht)
    THEN parseFloat(data.voucher.redeemed_amount_baht)
  ELSE IF data.hasData /\ data.my_ticket.present
          /\ Truthy(data.my_ticket.amount_baht)
    THEN parseFloat(data.my_ticket.amount_baht)
  ELSE IF Truthy(data.amount_bath) THEN parseFloat(data.amount_bath)
  ELSE IF Truthy(data.amount) THEN parseFloat(data.amount)
  ELSE IF Truthy(data.value) THEN parseFloat(data.value)
  ELSE Number(0)

\* a normalisation without the check of the amount (Donation.js:168-170)
normalizeResponseNoAmountCheck(data) ==
  IF data.isNull THEN Thrown(NullDataMsg)
  ELSE IF ~isSuccess(data) THEN Thrown(errorMsg(data))
  ELSE [ok |-> TRUE, value |-> extractAmount(data).n, error |-> ""]

\* a normalisation without the check of the success signals (Donation.js:143-147)
normalizeResponseNoSuccessCheck(data) ==
  LET amount == extractAmount(data)
  IN IF data.isNull THEN Thrown(NullDataMsg)
     ELSE IF amount.nan \/ amount.n = 0 \/ amount.n <= 0
       THEN Thrown(InvalidAmountMsg)
     ELSE [ok |-> TRUE, value |-> amount.n, error |-> ""]

\* a normalisation that checks the amount with amount <= 0 alone, which NaN
\* passes
normalizeResponseNaNPasses(data) ==
  IF data.isNull THEN Thrown(NullDataMsg)
  ELSE IF ~isSuccess(data) THEN Thrown(errorMsg(data))
  ELSE LET amount == extractAmount(data)
       IN IF ~amount.nan /\ amount.n <= 0
            THEN Thrown(InvalidAmountMsg)
          ELSE [ok |-> TRUE, value |-> amount.n, error |-> ""]

\* Donation.js:133-172: what callTrueMoneyAPI does with the parsed body
normalizeResponse(data) ==
  IF data.isNull THEN Thrown(NullDataMsg)
  ELSE IF ~isSuccess(data) THEN Thrown(errorMsg(data))
  ELSE LET amount == extractAmount(data)
       IN IF amount.nan \/ amount.n = 0 \/ amount.n <= 0
            THEN Thrown(InvalidAmountMsg)
          ELSE [ok |-> TRUE, value |-> amount.n, error |-> ""]

(***************************************************************************)
(* The ledger: the Donation collection (Donation.js:3-51).  A document     *)
(* holds the fields the pipeline and the reads decide on; message,         *)
(* voucherLink, ipAddress are stored as given and decide nothing.  The     *)
(* timestamp is the clock's value when the document was constructed        *)
(* (default: Date.now, Donation.js:40-44).                                 *)
(***************************************************************************)
\* donation._id of the completed document that invocation p constructs
\* (Donation.js:202): ObjectIds are unique per constructed document
CompletedId(p) == p

\* errorDonation._id of the failed document of invocation p (Donation.js:239)
FailedId(p) == NumClaims + p

\* Donation.js:202-211, 40-44
CompletedDoc(p, name, amt, hash, ts) ==
  [id |-> CompletedId(p), donorName |-> name, amount |-> amt,
   voucherHash |-> hash, status |-> "completed", timestamp |-> ts]

\* Donation.js:239-248
FailedDoc(p, name, hash, ts) ==
  [id |-> FailedId(p), donorName |-> name, amount |-> 0,
   voucherHash |-> hash, status |-> "failed", timestamp |-> ts]

\* schema validation run by save(): required donorName and voucherHash
\* (an empty string fails required), amount >= 0 (Donation.js:4-26)
Validate(doc) ==
  /\ doc.donorName # ""
  /\ doc.voucherHash # <<>>
  /\ doc.amount >= 0

\* a store without the unique index on voucherHash
DuplicateKeyNoIndex(led, hash) == FALSE

\* the unique index on voucherHash (Donation.js:21-26, 49) rejects an insert
\* whose voucherHash some document already has
DuplicateKey(led, hash) == \E i \in 1..Len(led) : led[i].voucherHash = hash

\* a duplicate check that finds nothing
isDuplicateVoucherNever(led, hash) == FALSE

\* Donation.js:88-91: findOne({ voucherHash }) found a document
isDuplicateVoucher(led, hash) == \E i \in 1..Len(led) : led[i].voucherHash = hash

(***************************************************************************)
(* The reads of the ledger (Donation.js:264-315).                          *)
(***************************************************************************)
\* { status: 'completed' }: the completed documents, in insertion order
Completed(led) == SelectSeq(led, LAMBDA d : d.status = "completed")

\* .select('donorName amount message timestamp -_id')
Project(doc) ==
  [donorName |-> doc.donorName, amount |-> doc.amount, timestamp |-> doc.timestamp]

\* .sort({ timestamp: -1 }): the orders of the documents of c, newest first;
\* the order of documents of equal timestamp is the store's choice
NewestFirst(c) ==
  {f \in [1..Len(c) -> 1..Len(c)] :
     /\ \A i, j \in 1..Len(c) : i # j => f[i] # f[j]
     /\ \A i, j \in 1..Len(c) : i < j => c[f[i]].timestamp >= c[f[j]].timestamp}

\* Donation.js:264-277: the lists getRecentDonations(limit) may return; on a
\* fault of the read, the empty list
getRecentDonations(led, limit, fault) ==
  IF fault THEN {<<>>}
  ELSE LET c == Completed(led)
           n == IF limit < Len(c) THEN limit ELSE Len(c)
       IN {[i \in 1..n |-> Project(c[f[i]])] : f \in NewestFirst(c)}

\* lastDonation: null
NoTimestamp == 0

\* the average sum / count, as a fraction
Fraction(sum, count) == [sum |-> sum, count |-> count]

\* Donation.js:298-304, 307-313
ZeroStats ==
  [totalAmount |-> 0, totalDonations |-> 0, averageAmount |-> Fraction(0, 1),
   topDonation |-> 0, lastDonation |-> NoTimestamp]

RECURSIVE SumAmount(_)
\* { $sum: '$amount' }
SumAmount(c) == IF c = <<>> THEN 0 ELSE Head(c).amount + SumAmount(Tail(c))

RECURSIVE MaxField(_, _)
\* { $max: '$amount' }, { $max: '$timestamp' } over a non-empty group
MaxField(c, field) ==
  IF Len(c) = 1 THEN Head(c)[field]
  ELSE LET m == MaxField(Tail(c), field)
       IN IF Head(c)[field] > m THEN Head(c)[field] ELSE m

\* the $group stage over the documents c (Donation.js:286-295); no group,
\* hence stats[0] undefined, when c is empty
Group(c) ==
  IF c = <<>> THEN ZeroStats
  ELSE [totalAmount |-> SumAmount(c), totalDonations |-> Len(c),
        averageAmount |-> Fraction(SumAmount(c), Len(c)),
        topDonation |-> MaxField(c, "amount"),
        lastDonation |-> MaxField(c, "timestamp")]

\* statistics without the $match stage: over the documents of every status
getDonationStatsNoMatch(led, fault) ==
  IF fault THEN ZeroStats ELSE Group(led)

\* Donation.js:282-315
getDonationStats(led, fault) ==
  IF fault THEN ZeroStats ELSE Group(Completed(led))

(***************************************************************************)
(* Inputs of the pipeline.                                                 *)
(***************************************************************************)
LinkA1 == <<"?", "v", "=", "a">>

LinkA2 == <<"x", "/", "a">>

LinkB == <<"v", "=", "b">>

LinkBad == <<"?", "a">>

\* the bodies of processDonation's argument: { voucherLink, donorName }
\* (server.js:145-146 trims both, so a name of blanks arrives empty)
Requests ==
  { [voucherLink |-> LinkA1, donorName |-> "Alice"],
    [voucherLink |-> LinkA2, donorName |-> ""],
    [voucherLink |-> LinkB, donorName |-> "Carol"],
    [voucherLink |-> LinkBad, donorName |-> "Alice"] }

NoRequest == [voucherLink |-> <<>>, donorName |-> ""]

\* { success: true, data: { voucher: { amount_baht: "50" } } }
Resp50 ==
  [EmptyData EXCEPT !.success = "true", !.hasData = TRUE,
                    !.voucher = Voucher(Str(<<"5", "0">>), Undef)]

\* { status: { code: "SUCCESS" }, amount: 20 }
Resp20 == [EmptyData EXCEPT !.status = StatusObj("SUCCESS", ""), !.amount = Num(20)]

\* { success: true, data: { voucher: { amount_baht: "0" } } }
RespZero ==
  [EmptyData EXCEPT !.success = "true", !.hasData = TRUE,
                    !.voucher = Voucher(Str(<<"0">>), Undef)]

\* { success: false, message: "voucher expired", amount: 30 }
RespRejected ==
  [EmptyData EXCEPT !.success = "false", !.message = "voucher expired",
                    !.amount = Num(30)]

\* the bodies the upstream may answer with
Responses == {Resp50, Resp20, RespZero, RespRejected}

(***************************************************************************)
(* State.                                                                  *)
(***************************************************************************)
VARIABLES
  ledger,       \* the Donation collection, in insertion order
  events,       \* the 'new-donation' events io.emit has broadcast, in order
  mobile,       \* process.env.TRUEMONEY_MOBILE is set
  pc,           \* per invocation: the await it is suspended at
  req,          \* per invocation: its argument
  voucherHash,  \* per invocation: const voucherHash (Donation.js:190)
  httpOk,       \* per invocation: response.ok (Donation.js:127)
  amount,       \* per invocation: the amount callTrueMoneyAPI returned
  timestamp,    \* per invocation: donation.timestamp, 0 before construction
  result,       \* per invocation: what the caller got
  hist,         \* per invocation: what it has done so far (history)
  now,          \* Date.now()
  input,        \* the argument of the function under study
  output        \* what the last read or the function under study returned

vars ==
  <<ledger, events, mobile, pc, req, voucherHash, httpOk, amount, timestamp,
    result, hist, now, input, output>>

\* nothing has been read or computed yet
NoOutput == [kind |-> "none", val |-> <<>>, fault |-> FALSE]

\* what a read or the function under study returned; fault: the store
\* failed the read
Output(kind, val, fault) == [kind |-> kind, val |-> val, fault |-> fault]

\* the caller's view of an invocation
Pending == [state |-> "pending", success |-> FALSE, message |-> "", data |-> <<>>]

Returned(success, message, data) ==
  [state |-> "returned", success |-> success, message |-> message, data |-> data]

Rejected(message) ==
  [state |-> "threw", success |-> FALSE, message |-> message, data |-> <<>>]

\* Donation.js:230, `thanks ${donorName} for donating ${amount} baht`
ThanksMsg == "thank you for donating"

\* the history of an invocation: the step it failed at ("locate", "dupRead",
\* "duplicate", "redeem", "validate", "store", "uniqueKey", "publish"), how often it queried
\* the ledger, called the upstream and inserted a document, and what had
\* happened before it started: a completed document with its voucher hash was
\* in the ledger (afterCompleted); an invocation with the same voucherLink had
\* called the upstream and returned a failure (afterFailed)
NoHist ==
  [failedAt |-> "none", reads |-> 0, extCalls |-> 0, inserts |-> 0,
   afterCompleted |-> FALSE, afterFailed |-> FALSE]

\* no invocation of processDonation has been made
NoInvocation ==
  /\ events = <<>>
  /\ pc = [p \in Claims |-> "idle"]
  /\ req = [p \in Claims |-> NoRequest]
  /\ voucherHash = [p \in Claims |-> <<>>]
  /\ httpOk = [p \in Claims |-> FALSE]
  /\ amount = [p \in Claims |-> 0]
  /\ timestamp = [p \in Claims |-> 0]
  /\ result = [p \in Claims |-> Pending]
  /\ hist = [p \in Claims |-> NoHist]

Init ==
  /\ ledger = <<>>
  /\ mobile \in BOOLEAN
  /\ NoInvocation
  /\ now = 1
  /\ input = <<>>
  /\ output = NoOutput

(***************************************************************************)
(* The catch block of processDonation (Donation.js:234-258).               *)
(***************************************************************************)
\* Donation.js:243: this.extractVoucherHash(voucherLink || '').catch(() => '')
\* extractVoucherHash is synchronous: it throws, or it returns a string, and
\* a string has no method catch
errorDonationHash(link) ==
  LET h == extractVoucherHash(link)
  IN IF h.ok THEN Thrown(TypeErrorMsg) ELSE Thrown(h.error)

\* the inner try without its catch: what line 243 throws reaches the caller
recordFailureNoCatch(led, p, r) ==
  [ledger |-> led, escaped |-> ~errorDonationHash(r.voucherLink).ok]

\* Donation.js:238-252: the inner try/catch; the ledger afterwards, and whether
\* an exception left the block
recordFailure(led, p, r) ==
  LET h   == errorDonationHash(r.voucherLink)
      doc == FailedDoc(p, r.donorName, h.value, now)
  IN IF ~h.ok THEN [ledger |-> led, escaped |-> FALSE]
     ELSE IF Validate(doc) /\ ~DuplicateKey(led, doc.voucherHash)
       THEN [ledger |-> Append(led, doc), escaped |-> FALSE]
     ELSE [ledger |-> led, escaped |-> FALSE]

\* Donation.js:234-258 for invocation p with argument r, entered with `error`
\* while the ledger is led; h is the history of p up to the throw
Catch(p, r, led, error, h) ==
  LET rf == recordFailure(led, p, r)
  IN /\ ledger' = rf.ledger
     /\ result' = [result EXCEPT ![p] =
                     IF rf.escaped THEN Rejected(TypeErrorMsg)
                     ELSE Returned(FALSE, error, <<>>)]
     /\ pc' = [pc EXCEPT ![p] = "done"]
     /\ httpOk' = [httpOk EXCEPT ![p] = FALSE]
     /\ amount' = [amount EXCEPT ![p] = 0]
     /\ timestamp' = [timestamp EXCEPT ![p] = 0]
     /\ hist' = [hist EXCEPT ![p] =
                   [h EXCEPT !.inserts = @ + (Len(rf.ledger) - Len(led))]]

(***************************************************************************)
(* processDonation (Donation.js:185-259), one action per resumption: the   *)
(* code between two awaits runs without interruption on the event loop.    *)
(* An action is the settling of the awaited operation (the store executes  *)
(* the query or the insert, the upstream answers) together with the code   *)
(* that runs up to the next await or the return.                           *)
(***************************************************************************)
\* the hash the patterns of extractVoucherHash capture from the link, <<>>
\* when none matches
CapturedHash(link) ==
  IF Pattern1(link).ok THEN Pattern1(link).value
  ELSE IF Pattern2(link).ok THEN Pattern2(link).value
  ELSE IF Pattern3(link).ok THEN Pattern3(link).value
  ELSE <<>>

\* the history an invocation with argument r starts with
StartHist(r) ==
  [NoHist EXCEPT
     !.afterCompleted =
        \E i \in 1..Len(ledger) :
          /\ ledger[i].status = "completed"
          /\ CapturedHash(r.voucherLink) # <<>>
          /\ ledger[i].voucherHash = CapturedHash(r.voucherLink),
     !.afterFailed =
        \E q \in Claims :
          /\ pc[q] = "done"
          /\ req[q].voucherLink = r.voucherLink
          /\ hist[q].extCalls > 0
          /\ result[q].state = "returned"
          /\ ~result[q].success]

\* Donation.js:185-194: the call, up to `await this.isDuplicateVoucher(...)`.
\* Invocations are numbered in the order they are made.
Start(p) ==
  /\ pc[p] = "idle"
  /\ \A q \in Claims : q < p => pc[q] # "idle"
  /\ \E r \in Requests :
       LET h  == extractVoucherHash(r.voucherLink)
           h0 == StartHist(r)
       IN /\ req' = [req EXCEPT ![p] = r]
          /\ IF h.ok
               THEN /\ voucherHash' = [voucherHash EXCEPT ![p] = h.value]
                    /\ pc' = [pc EXCEPT ![p] = "findOne"]
                    /\ hist' = [hist EXCEPT ![p] = [h0 EXCEPT !.reads = 1]]
                    /\ UNCHANGED <<ledger, result, httpOk, amount, timestamp>>
               ELSE /\ Catch(p, r, ledger, h.error, [h0 EXCEPT !.failedAt = "locate"])
                    /\ UNCHANGED voucherHash
  /\ UNCHANGED <<events, mobile, now, input, output>>

\* Donation.js:89-90, 194-199, 97-121: findOne settles; a duplicate throws,
\* otherwise callTrueMoneyAPI runs up to `await fetch(...)`
FindOneReturn(p) ==
  /\ pc[p] = "findOne"
  /\ \E fault \in BOOLEAN :
       IF fault
         THEN Catch(p, req[p], ledger, ReadFaultMsg,
                    [hist[p] EXCEPT !.failedAt = "dupRead"])
       ELSE IF isDuplicateVoucher(ledger, voucherHash[p])
         THEN Catch(p, req[p], ledger, DuplicateMsg,
                    [hist[p] EXCEPT !.failedAt = "duplicate"])
       ELSE IF ~mobile
         THEN Catch(p, req[p], ledger, ConfigMsg,
                    [hist[p] EXCEPT !.failedAt = "redeem"])
       ELSE /\ pc' = [pc EXCEPT ![p] = "fetch"]
            /\ hist' = [hist EXCEPT ![p].extCalls = @ + 1]
            /\ UNCHANGED <<ledger, result, httpOk, amount, timestamp>>
  /\ UNCHANGED <<events, mobile, req, voucherHash, now, input, output>>

\* a timeout that calls the upstream again instead of failing
TimeoutRetry(p) ==
  /\ pc[p] = "fetch"
  /\ hist' = [hist EXCEPT ![p].extCalls = @ + 1]
  /\ UNCHANGED <<ledger, events, mobile, pc, req, voucherHash, httpOk, amount,
                 timestamp, result, now, input, output>>

\* Donation.js:110, 174-177: the timer fires while fetch is pending, the
\* controller aborts and fetch rejects with an AbortError
Timeout(p) ==
  /\ pc[p] = "fetch"
  /\ Catch(p, req[p], ledger, TimeoutMsg, [hist[p] EXCEPT !.failedAt = "redeem"])
  /\ UNCHANGED <<events, mobile, req, voucherHash, now, input, output>>

\* Donation.js:112-127: fetch settles before the timer fires: it rejects
\* (a network fault), or resolves with the status line; the timer is cleared
FetchReturn(p) ==
  /\ pc[p] = "fetch"
  /\ \E outcome \in {"fault", "ok", "notok"} :
       IF outcome = "fault"
         THEN Catch(p, req[p], ledger, NetworkMsg,
                    [hist[p] EXCEPT !.failedAt = "redeem"])
       ELSE /\ pc' = [pc EXCEPT ![p] = "body"]
            /\ httpOk' = [httpOk EXCEPT ![p] = (outcome = "ok")]
            /\ UNCHANGED <<ledger, result, hist, amount, timestamp>>
  /\ UNCHANGED <<events, mobile, req, voucherHash, now, input, output>>

\* Donation.js:127-172, 199-213: the body is read (response.text() of an error
\* status, response.json() otherwise) and normalised; on success the document
\* is constructed and processDonation runs up to `await donation.save()`
BodyReturn(p) ==
  /\ pc[p] = "body"
  /\ \E fault \in BOOLEAN, data \in Responses :
       LET r == IF fault THEN Thrown(BodyMsg)
                ELSE IF ~httpOk[p] THEN Thrown(ApiErrorMsg)
                ELSE normalizeResponse(data)
       IN IF r.ok
            THEN /\ amount' = [amount EXCEPT ![p] = r.value]
                 /\ timestamp' = [timestamp EXCEPT ![p] = now]
                 /\ pc' = [pc EXCEPT ![p] = "save"]
                 /\ UNCHANGED <<ledger, result, hist, httpOk>>
          ELSE Catch(p, req[p], ledger, r.error,
                     [hist[p] EXCEPT !.failedAt = "redeem"])
  /\ UNCHANGED <<events, mobile, req, voucherHash, now, input, output>>

\* Donation.js:216-222
donationData(doc) ==
  [id |-> doc.id, donorName |-> doc.donorName, amount |-> doc.amount]

\* a publisher that broadcasts every event twice
emitTwice(evs, d) == evs \o <<d, d>>

\* Donation.js:224: this.io.emit('new-donation', donationData)
emit(evs, d) == Append(evs, d)

\* Donation.js:213-232: save settles (validation, the store, the unique
\* index); once the document is stored the event is emitted and the success
\* result returned; any throw on the way enters the catch block
SaveReturn(p) ==
  /\ pc[p] = "save"
  /\ \E storeFault \in BOOLEAN, emitFault \in BOOLEAN :
       LET doc == CompletedDoc(p, req[p].donorName, amount[p], voucherHash[p],
                               timestamp[p])
           led == Append(ledger, doc)
       IN IF ~Validate(doc)
            THEN /\ Catch(p, req[p], ledger, ValidationMsg,
                          [hist[p] EXCEPT !.failedAt = "validate"])
                 /\ UNCHANGED events
          ELSE IF storeFault
            THEN /\ Catch(p, req[p], ledger, StoreFaultMsg,
                          [hist[p] EXCEPT !.failedAt = "store"])
                 /\ UNCHANGED events
          ELSE IF DuplicateKey(ledger, doc.voucherHash)
            THEN /\ Catch(p, req[p], ledger, DupKeyMsg,
                          [hist[p] EXCEPT !.failedAt = "uniqueKey"])
                 /\ UNCHANGED events
          ELSE IF emitFault
            THEN /\ Catch(p, req[p], led, EmitMsg,
                          [hist[p] EXCEPT !.failedAt = "publish", !.inserts = @ + 1])
                 /\ UNCHANGED events
          ELSE /\ ledger' = led
               /\ events' = emit(events, donationData(doc))
               /\ result' = [result EXCEPT ![p] =
                               Returned(TRUE, ThanksMsg, <<donationData(doc)>>)]
               /\ pc' = [pc EXCEPT ![p] = "done"]
               /\ httpOk' = [httpOk EXCEPT ![p] = FALSE]
               /\ amount' = [amount EXCEPT ![p] = 0]
               /\ timestamp' = [timestamp EXCEPT ![p] = 0]
               /\ hist' = [hist EXCEPT ![p].inserts = @ + 1]
  /\ UNCHANGED <<mobile, req, voucherHash, now, input, output>>

Next ==
  \E p \in Claims :
    \/ Start(p)
    \/ FindOneReturn(p)
    \/ Timeout(p)
    \/ FetchReturn(p)
    \/ BodyReturn(p)
    \/ SaveReturn(p)

Spec == Init /\ [][Next]_vars

(***************************************************************************)
(* The reads run beside the pipeline (server.js:70-108, 162-181), and the  *)
(* clock advances.                                                         *)
(***************************************************************************)
\* what the pipeline owns
pipeline ==
  <<ledger, events, mobile, pc, req, voucherHash, httpOk, amount, timestamp,
    result, hist>>

\* Date.now() has advanced
Tick ==
  /\ now < MaxTime
  /\ now' = now + 1
  /\ UNCHANGED <<pipeline, input, output>>

\* a reader that removes the oldest document it has read
GetRecentDonationsAndPrune ==
  /\ \E limit \in Limits, fault \in BOOLEAN :
       \E res \in getRecentDonations(ledger, limit, fault) :
         output' = Output("recent", res, fault)
  /\ ledger' = IF ledger = <<>> THEN ledger ELSE Tail(ledger)
  /\ UNCHANGED <<events, mobile, pc, req, voucherHash, httpOk, amount, timestamp,
                 result, hist, now, input>>

\* server.js:72, 92, 164-165 and Donation.js:264-277
GetRecentDonations ==
  /\ \E limit \in Limits, fault \in BOOLEAN :
       \E res \in getRecentDonations(ledger, limit, fault) :
         output' = Output("recent", res, fault)
  /\ UNCHANGED <<pipeline, now, input>>

\* server.js:73, 93, 175 and Donation.js:282-315
GetDonationStats ==
  /\ \E fault \in BOOLEAN :
       output' = Output("stats", getDonationStats(ledger, fault), fault)
  /\ UNCHANGED <<pipeline, now, input>>

NextReads ==
  \/ Next
  \/ Tick
  \/ GetRecentDonations
  \/ GetDonationStats

SpecReads == Init /\ [][NextReads]_vars

(***************************************************************************)
(* The reads over the collections the schema admits (Donation.js:3-51):    *)
(* documents of every status, written by this or an earlier process.       *)
(***************************************************************************)
\* status: enum (Donation.js:36-40)
Statuses == {"pending", "completed", "failed"}

\* amount: Number, min 0 (Donation.js:10-14)
DocAmounts == {0, 20, 50}

\* the i-th document of a collection, with a voucherHash of its own
StoredDoc(i, status, amt, ts) ==
  [id |-> 2 * NumClaims + i, donorName |-> "Alice", amount |-> amt,
   voucherHash |-> [k \in 1..i |-> "a"], status |-> status, timestamp |-> ts]

\* the collections of up to maxLen documents
Ledgers(maxLen) ==
  UNION {
    {[i \in 1..n |-> StoredDoc(i, f[i][1], f[i][2], f[i][3])] :
       f \in [1..n -> Statuses \X DocAmounts \X (1..MaxTime)]} :
    n \in 0..maxLen}

InitLedger ==
  /\ ledger \in Ledgers(MaxLedger)
  /\ mobile = TRUE
  /\ NoInvocation
  /\ now = MaxTime
  /\ input = <<>>
  /\ output = NoOutput

NextLedger ==
  \/ GetRecentDonations
  \/ GetDonationStats

SpecLedger == InitLedger /\ [][NextLedger]_vars

(***************************************************************************)
(* callTrueMoneyAPI on the bodies the upstream may answer with             *)
(* (Donation.js:133-172), as a function of the body.                       *)
(***************************************************************************)
\* the values of an amount field: numbers, and strings that parse to a
\* number or to NaN
AmountValues ==
  {Num(0), Num(20), Num(0 - 5), Str(<<"5", "0">>), Str(<<"x">>)}

\* the amount fields in the order callTrueMoneyAPI probes them
\* (Donation.js:152-163): data.voucher.amount_baht,
\* data.voucher.redeemed_amount_baht, data.my_ticket.amount_baht, amount_bath,
\* amount, value
NumAmountFields == 6

\* the assignments of values to at most maxFields of the amount fields
AmountFields(maxFields) ==
  {f \in [1..NumAmountFields -> AmountValues \cup {Undef}] :
     Cardinality({k \in 1..NumAmountFields : f[k] # Undef}) <= maxFields}

\* what a body says about the redemption beside the amounts
SignalShapes ==
  {"bare", "refused", "flag", "statusString", "statusCode", "statusMessage",
   "statusFailed", "voucher"}

\* the body of shape sig with the amount fields f; an amount field of
\* data.voucher or data.my_ticket brings its object along
Body(sig, f) ==
  LET hasVoucher == sig = "voucher" \/ f[1] # Undef \/ f[2] # Undef
      hasTicket  == f[3] # Undef
  IN [isNull      |-> FALSE,
      success     |-> CASE sig = "flag" -> "true"
                        [] sig = "refused" -> "false"
                        [] OTHER -> "undef",
      status      |-> CASE sig = "statusString" -> StatusStr("success")
                        [] sig = "statusCode" -> StatusObj("SUCCESS", "")
                        [] sig = "statusMessage" -> StatusObj("", "success")
                        [] sig = "statusFailed" -> StatusObj("FAIL", "expired")
                        [] OTHER -> NoStatus,
      message     |-> IF sig = "refused" THEN "voucher expired" ELSE "",
      error       |-> "",
      hasData     |-> hasVoucher \/ hasTicket,
      voucher     |-> IF hasVoucher THEN Voucher(f[1], f[2]) ELSE NoVoucher,
      my_ticket   |-> IF hasTicket THEN Ticket(f[3]) ELSE NoTicket,
      amount_bath |-> f[4],
      amount      |-> f[5],
      value       |-> f[6]]

\* the bodies response.json() may resolve with (Donation.js:133), with at
\* most maxFields amount fields
Bodies(maxFields) ==
  {Body(sig, f) : sig \in SignalShapes, f \in AmountFields(maxFields)}
    \cup {NullData}

InitRedeem ==
  /\ ledger = <<>>
  /\ mobile = TRUE
  /\ NoInvocation
  /\ now = 1
  /\ input \in Bodies(MaxFields)
  /\ output = NoOutput

\* Donation.js:150-164, reached with a body that signals success
ExtractAmount ==
  /\ ~input.isNull
  /\ isSuccess(input)
  /\ output' = Output("amount", extractAmount(input), FALSE)
  /\ UNCHANGED <<pipeline, now, input>>

\* Donation.js:133-172
NormalizeResponse ==
  /\ output' = Output("redeem", normalizeResponse(input), FALSE)
  /\ UNCHANGED <<pipeline, now, input>>

NextRedeem ==
  \/ ExtractAmount
  \/ NormalizeResponse

SpecRedeem == InitRedeem /\ [][NextRedeem]_vars

(***************************************************************************)
(* extractVoucherHash (Donation.js:64-83) as a function of the link.       *)
(***************************************************************************)
\* v, =, /, an alphanumeric that is not v, and a character that is neither
\* alphanumeric nor part of a pattern
LinkAlphabet == {"v", "=", "/", "a", "?"}

\* the character sequences of up to maxLen characters
ShortLinks(maxLen) == UNION {[1..n -> LinkAlphabet] : n \in 0..maxLen}

\* the links: short ones, and the campaign address followed by a short one
Links(maxLen) ==
  ShortLinks(maxLen) \cup {CampaignPrefix \o l : l \in ShortLinks(maxLen)}

InitLocator ==
  /\ ledger = <<>>
  /\ mobile = TRUE
  /\ NoInvocation
  /\ now = 1
  /\ input \in Links(MaxLinkLen)
  /\ output = NoOutput

\* Donation.js:64-83
ExtractVoucherHash ==
  /\ output' = Output("hash", extractVoucherHash(input), FALSE)
  /\ UNCHANGED <<pipeline, now, input>>

NextLocator == ExtractVoucherHash

SpecLocator == InitLocator /\ [][NextLocator]_vars

\* The timer of callTrueMoneyAPI fires once its delay has passed
\* (Donation.js:110) and the store settles every query and insert; whether
\* and when the upstream answers is up to the upstream.
FairSpec ==
  /\ Spec
  /\ \A p \in Claims :
       /\ WF_vars(Timeout(p))
       /\ WF_vars(FindOneReturn(p))
       /\ WF_vars(SaveReturn(p))

(***************************************************************************)
(* Vocabulary of the properties.                                           *)
(***************************************************************************)
Done(p) == pc[p] = "done"

Succeeded(p) == result[p].state = "returned" /\ result[p].success

Failed(p) == result[p].state = "returned" /\ ~result[p].success

\* the voucher hashes the requests yield
Hashes == {CapturedHash(r.voucherLink) : r \in Requests} \ {<<>>}

\* the completed documents of the ledger with voucher hash h
CompletedWith(h) ==
  {i \in 1..Len(ledger) :
     ledger[i].status = "completed" /\ ledger[i].voucherHash = h}

\* the events published for the document of invocation p
EventsOf(p) == {i \in 1..Len(events) : events[i].id = CompletedId(p)}

\* the documents invocation p has inserted
DocsOf(p) ==
  {i \in 1..Len(ledger) : ledger[i].id \in {CompletedId(p), FailedId(p)}}

\* the steps of invocation p that may resume it
Resume(p) ==
  FindOneReturn(p) \/ Timeout(p) \/ FetchReturn(p) \/ BodyReturn(p) \/ SaveReturn(p)

(***************************************************************************)
(* C1: among the invocations with one voucher hash at most one ends        *)
(* completed: the ledger never holds two completed documents with that     *)
(* hash, and at most one caller gets success = true.                       *)
(***************************************************************************)
C1_AtMostOneCompleted ==
  \A h \in Hashes :
    /\ Cardinality(CompletedWith(h)) <= 1
    /\ Cardinality({p \in Claims : pc[p] # "idle" /\ voucherHash[p] = h
                                   /\ Succeeded(p)}) <= 1

\* two invocations with one hash both passed the duplicate check and both
\* redeemed; one completed, the other lost at the unique index
C1_Witness ==
  \E p, q \in Claims :
    /\ p # q
    /\ Done(p) /\ Done(q)
    /\ voucherHash[p] = voucherHash[q]
    /\ hist[p].extCalls = 1 /\ hist[q].extCalls = 1
    /\ Succeeded(p)
    /\ hist[q].failedAt = "uniqueKey"

(***************************************************************************)
(* C2: the invocation whose insert the unique index rejects returns the    *)
(* same failure as an ordinary duplicate: success = false with the message *)
(* of the duplicate check.                                                 *)
(***************************************************************************)
C2_RaceLoserGetsDuplicateMessage ==
  \A p \in Claims :
    Done(p) /\ hist[p].failedAt = "uniqueKey"
      => Failed(p) /\ result[p].message = DuplicateMsg

(***************************************************************************)
(* C3 as stated: an invocation started once a completed document with its  *)
(* hash is in the ledger returns success = false with the duplicate        *)
(* message, calls the upstream never and publishes nothing.                *)
(***************************************************************************)
C3_AsStated ==
  \A q \in Claims :
    hist[q].afterCompleted
      => /\ hist[q].extCalls = 0
         /\ EventsOf(q) = {}
         /\ Done(q) => Failed(q) /\ result[q].message = DuplicateMsg

(***************************************************************************)
(* C3 amended: such an invocation returns success = false, calls the       *)
(* upstream never and publishes nothing; its message is the duplicate      *)
(* message unless the duplicate-check read itself failed.                  *)
(***************************************************************************)
C3_Amended ==
  \A q \in Claims :
    hist[q].afterCompleted
      => /\ hist[q].extCalls = 0
         /\ EventsOf(q) = {}
         /\ Done(q) => /\ Failed(q)
                       /\ hist[q].failedAt \in {"dupRead", "duplicate"}
                       /\ hist[q].failedAt = "duplicate"
                            => result[q].message = DuplicateMsg

C3_Witness ==
  \E q \in Claims :
    /\ hist[q].afterCompleted
    /\ Done(q)
    /\ result[q].message = DuplicateMsg

(***************************************************************************)
(* C4: when the Redeem step of an invocation has failed, a document with   *)
(* status failed, amount 0 and its voucher hash is in the ledger by the    *)
(* time it returns.                                                        *)
(***************************************************************************)
C4_FailedRedeemIsRecorded ==
  \A p \in Claims :
    Done(p) /\ hist[p].failedAt = "redeem"
      => \E i \in 1..Len(ledger) :
           /\ ledger[i].status = "failed"
           /\ ledger[i].amount = 0
           /\ ledger[i].voucherHash = voucherHash[p]

(***************************************************************************)
(* C5: an invocation made after one with the same voucherLink had called   *)
(* the upstream and returned a failure gets the duplicate failure and      *)
(* does not call the upstream again.                                       *)
(***************************************************************************)
C5_SecondAttemptIsDuplicate ==
  \A q \in Claims :
    hist[q].afterFailed
      => /\ hist[q].extCalls = 0
         /\ Done(q) => Failed(q) /\ result[q].message = DuplicateMsg

(***************************************************************************)
(* C6: when the redemption succeeded and the insert of the completed       *)
(* document fails, processDonation still returns success = true.           *)
(***************************************************************************)
C6_PersistFailureKeepsSuccess ==
  \A p \in Claims :
    Done(p) /\ hist[p].failedAt \in {"validate", "store", "uniqueKey"}
      => Succeeded(p)

(***************************************************************************)
(* C7: when the completed document is inserted and the publish of the      *)
(* 'new-donation' event throws, processDonation still returns              *)
(* success = true.                                                         *)
(***************************************************************************)
C7_PublishFailureKeepsSuccess ==
  \A p \in Claims :
    Done(p) /\ hist[p].failedAt = "publish" => Succeeded(p)

(***************************************************************************)
(* C8: exactly one 'new-donation' event is published for an invocation     *)
(* that returns success, none for one that returns a failure or has not    *)
(* returned; every published event carries the id, donorName and amount of *)
(* a completed document that is in the ledger.                             *)
(***************************************************************************)
C8_EventsMatchCompletions ==
  /\ \A p \in Claims :
       Cardinality(EventsOf(p)) = IF Done(p) /\ Succeeded(p) THEN 1 ELSE 0
  /\ \A i \in 1..Len(events) :
       \E j \in 1..Len(ledger) :
         /\ ledger[j].status = "completed"
         /\ ledger[j].id = events[i].id
         /\ ledger[j].donorName = events[i].donorName
         /\ ledger[j].amount = events[i].amount

\* one invocation completed and published, another one failed
C8_Witness ==
  \E p, q \in Claims :
    /\ Done(p) /\ Succeeded(p) /\ Cardinality(EventsOf(p)) = 1
    /\ Done(q) /\ Failed(q) /\ hist[q].extCalls = 1

(***************************************************************************)
(* C9: no fault escapes processDonation: whatever fails, an invocation     *)
(* that is under way can be resumed, and one that has ended has returned a *)
(* result with a boolean success flag and a message, success = false       *)
(* whenever Locate, the duplicate check or Redeem failed.                  *)
(***************************************************************************)
C9_NoFaultEscapes ==
  \A p \in Claims :
    /\ result[p].state # "threw"
    /\ pc[p] \notin {"idle", "done"} => result[p] = Pending /\ ENABLED Resume(p)
    /\ Done(p) => /\ result[p].state = "returned"
                  /\ result[p].success \in BOOLEAN
                  /\ result[p].message # ""
                  /\ result[p].success <=> hist[p].failedAt = "none"
                  /\ hist[p].failedAt \in {"locate", "dupRead", "duplicate", "redeem"}
                       => ~result[p].success

\* one invocation failed in Redeem and another one in the publish
C9_Witness ==
  \E p, q \in Claims :
    /\ Done(p) /\ hist[p].failedAt = "redeem" /\ Failed(p)
    /\ Done(q) /\ hist[q].failedAt = "publish" /\ Failed(q)

(***************************************************************************)
(* C10: an invocation whose link the locator rejects ends failed with the  *)
(* locator's message, having made no duplicate lookup, no upstream call,   *)
(* no insert and no publish: no document of the ledger is its own.         *)
(***************************************************************************)
C10_LocateFailureTouchesNothing ==
  \A p \in Claims :
    pc[p] # "idle" /\ CapturedHash(req[p].voucherLink) = <<>>
      => /\ Done(p)
         /\ result[p] = Returned(FALSE, InvalidLinkMsg, <<>>)
         /\ hist[p].reads = 0
         /\ hist[p].extCalls = 0
         /\ hist[p].inserts = 0
         /\ DocsOf(p) = {}
         /\ EventsOf(p) = {}

\* a rejected link was submitted while the ledger held a document
C10_Witness ==
  \E p \in Claims :
    /\ Done(p)
    /\ req[p].voucherLink = LinkBad
    /\ hist[p].failedAt = "locate"
    /\ Len(ledger) > 0

(***************************************************************************)
(* C11: every completed document of the ledger has amount > 0 and a        *)
(* voucherHash that no other document of the ledger has.                   *)
(***************************************************************************)
C11_CompletedPositiveAndUnique ==
  \A i \in 1..Len(ledger) :
    ledger[i].status = "completed"
      => /\ ledger[i].amount > 0
         /\ \A j \in 1..Len(ledger) :
              j # i => ledger[j].voucherHash # ledger[i].voucherHash

\* two completed documents, of different vouchers
C11_Witness ==
  \E i, j \in 1..Len(ledger) :
    /\ i # j
    /\ ledger[i].status = "completed"
    /\ ledger[j].status = "completed"

(***************************************************************************)
(* C12: within one invocation the steps run in the order Locate,           *)
(* Duplicate-check, Redeem, Persist, Publish, each at most once: at most   *)
(* one upstream call, a step only after the one before it succeeded, and   *)
(* nothing after the step that failed.                                     *)
(***************************************************************************)
\* how often invocation p has queried the ledger, called the upstream,
\* inserted a document and published an event
Steps(p) ==
  <<hist[p].reads, hist[p].extCalls, hist[p].inserts, Cardinality(EventsOf(p))>>

C12_StepsInOrderOnce ==
  \A p \in Claims :
    CASE pc[p] = "idle"    -> Steps(p) = <<0, 0, 0, 0>>
      [] pc[p] = "findOne" -> Steps(p) = <<1, 0, 0, 0>>
      [] pc[p] = "fetch"   -> Steps(p) = <<1, 1, 0, 0>>
      [] pc[p] = "body"    -> Steps(p) = <<1, 1, 0, 0>>
      [] pc[p] = "save"    -> Steps(p) = <<1, 1, 0, 0>> /\ amount[p] > 0
      [] pc[p] = "done"    ->
           CASE hist[p].failedAt = "locate" -> Steps(p) = <<0, 0, 0, 0>>
             [] hist[p].failedAt \in {"dupRead", "duplicate"}
                  -> Steps(p) = <<1, 0, 0, 0>>
             [] hist[p].failedAt = "redeem"
                  -> Steps(p) \in {<<1, 0, 0, 0>>, <<1, 1, 0, 0>>}
             [] hist[p].failedAt \in {"validate", "store", "uniqueKey"}
                  -> Steps(p) = <<1, 1, 0, 0>>
             [] hist[p].failedAt = "publish" -> Steps(p) = <<1, 1, 1, 0>>
             [] hist[p].failedAt = "none" -> Steps(p) = <<1, 1, 1, 1>>

\* one invocation ran all five steps, another one stopped in Redeem
C12_Witness ==
  \E p, q \in Claims :
    /\ Done(p) /\ Steps(p) = <<1, 1, 1, 1>>
    /\ Done(q) /\ hist[q].failedAt = "redeem" /\ Steps(q) = <<1, 1, 0, 0>>

(***************************************************************************)
(* C14: redeem is bounded by its timeout: a call of the upstream that is   *)
(* waiting for the status line or for the body eventually ends, with a     *)
(* result or a failure.                                                    *)
(***************************************************************************)
C14_RedeemEventuallyReturns ==
  \A p \in Claims :
    (pc[p] \in {"fetch", "body"}) ~> (pc[p] \notin {"fetch", "body"})

(***************************************************************************)
(* C20: no donation is recorded without a redemption: a completed document *)
(* enters the ledger only as the document of an invocation that called the *)
(* upstream for the document's voucherHash and got a body that signals     *)
(* success, and its amount is the amount extracted from that body.         *)
(***************************************************************************)
C20_NoDonationWithoutRedemption ==
  [][ /\ \A p \in Claims :
           pc[p] = "body" /\ pc'[p] = "save"
             => /\ httpOk[p]
                /\ hist[p].extCalls = 1
                /\ \E data \in Responses :
                     /\ ~data.isNull
                     /\ isSuccess(data)
                     /\ ~extractAmount(data).nan
                     /\ amount'[p] = extractAmount(data).n
      /\ \A p \in Claims : pc[p] = "save" => amount'[p] \in {amount[p], 0}
      /\ \A i \in 1..Len(ledger') :
           i > Len(ledger) /\ ledger'[i].status = "completed"
             => \E p \in Claims :
                  /\ pc[p] = "save"
                  /\ ledger'[i].id = CompletedId(p)
                  /\ ledger'[i].voucherHash = voucherHash[p]
                  /\ ledger'[i].amount = amount[p]
    ]_vars

\* a completed document of 50 is in the ledger
C20_Witness ==
  \E i \in 1..Len(ledger) :
    ledger[i].status = "completed" /\ ledger[i].amount = 50

(***************************************************************************)
(* C13: the ledger is append-only: every step of the pipeline and every    *)
(* read leaves the ledger as it is or appends exactly one document; no     *)
(* document of the ledger is changed or removed.                           *)
(***************************************************************************)
C13_AppendOnly ==
  [][ \/ ledger' = ledger
      \/ /\ Len(ledger') = Len(ledger) + 1
         /\ SubSeq(ledger', 1, Len(ledger)) = ledger
    ]_vars

\* the readers have listed two documents the pipeline had appended
C13_Witness ==
  /\ Len(ledger) = 2
  /\ output.kind = "recent"
  /\ Len(output.val) = 2

(***************************************************************************)
(* C18: getDonationStats returns the sum, the count, the maximum amount    *)
(* and the newest timestamp of the completed documents, failed and pending *)
(* documents counting for nothing; with no completed document, zeros and   *)
(* no timestamp.                                                           *)
(***************************************************************************)
\* the positions of the completed documents
CompletedAt == {i \in 1..Len(ledger) : ledger[i].status = "completed"}

RECURSIVE AmountOver(_)
\* the sum of the amounts of the documents at the positions S
AmountOver(S) ==
  IF S = {} THEN 0
  ELSE LET i == CHOOSE k \in S : TRUE
       IN ledger[i].amount + AmountOver(S \ {i})

\* the greatest number of a non-empty set
Greatest(N) == CHOOSE a \in N : \A b \in N : a >= b

\* the statistics read are those of the completed documents
StatsAreExact ==
  /\ output.val.totalAmount = AmountOver(CompletedAt)
  /\ output.val.totalDonations = Cardinality(CompletedAt)
  /\ output.val.topDonation =
       IF CompletedAt = {} THEN 0
       ELSE Greatest({ledger[i].amount : i \in CompletedAt})
  /\ output.val.lastDonation =
       IF CompletedAt = {} THEN NoTimestamp
       ELSE Greatest({ledger[i].timestamp : i \in CompletedAt})

\* as stated: whatever happens to the read
C18_AsStated == output.kind = "stats" => StatsAreExact

\* amended: when the store answers the read; when it fails, zeros
C18_Amended ==
  output.kind = "stats"
    => IF output.fault THEN output.val = ZeroStats ELSE StatsAreExact

\* statistics of 50 read from a completed document of 50, next to a failed
\* document of 20
C18_Witness ==
  /\ output.kind = "stats"
  /\ ~output.fault
  /\ output.val.totalAmount = 50
  /\ \E i, j \in 1..Len(ledger) :
       /\ ledger[i].status = "completed" /\ ledger[i].amount = 50
       /\ ledger[j].status = "failed" /\ ledger[j].amount = 20

(***************************************************************************)
(* C15: for a body that signals success, the amount used is the value of   *)
(* the first amount field, in the order nested voucher amount, nested      *)
(* voucher redeemed amount, nested ticket amount, amount_bath, amount,     *)
(* value, that is present; a nested voucher amount wins over a top-level   *)
(* amount.                                                                 *)
(***************************************************************************)
\* the signals of success a body carries
SignalsOf(data) ==
  {sig \in {"flag", "statusString", "statusCode", "statusMessage", "voucher"} :
     CASE sig = "flag" -> data.success = "true"
       [] sig = "statusString" -> data.status.t = "str" /\ data.status.s = "success"
       [] sig = "statusCode" -> data.status.t = "obj" /\ data.status.code = "SUCCESS"
       [] sig = "statusMessage" ->
            data.status.t = "obj" /\ data.status.message = "success"
       [] sig = "voucher" -> data.hasData /\ data.voucher.present}

\* the amount fields of a body in the order of their priority
FieldsOf(data) ==
  <<data.voucher.amount_baht, data.voucher.redeemed_amount_baht,
    data.my_ticket.amount_baht, data.amount_bath, data.amount, data.value>>

\* the amount fields of the body that are present
Present(data) == {k \in 1..NumAmountFields : FieldsOf(data)[k].t # "undef"}

\* the amount fields of the body that are present with a value other than
\* 0 and the empty string
PresentNonZero(data) ==
  {k \in Present(data) :
     /\ FieldsOf(data)[k] # Num(0)
     /\ FieldsOf(data)[k] # Str(<<>>)}

\* the parsed value of the first of the fields K of the body
FirstOf(K, data) ==
  parseFloat(FieldsOf(data)[CHOOSE k \in K : \A j \in K : k <= j])

C15_FirstPresentField ==
  output.kind = "amount" /\ Present(input) # {}
    => output.val = FirstOf(Present(input), input)

(***************************************************************************)
(* C16: an extracted amount that is zero, negative or not a number fails   *)
(* the redemption with the invalid-amount error even when the body's       *)
(* success flag is true; no amount <= 0 is ever returned.                  *)
(***************************************************************************)
C16_NoAmountBelowOne ==
  output.kind = "redeem"
    => /\ output.val.ok => output.val.value > 0
       /\ /\ SignalsOf(input) # {}
          /\ \/ PresentNonZero(input) = {}
             \/ FirstOf(PresentNonZero(input), input).nan
             \/ FirstOf(PresentNonZero(input), input).n <= 0
          => output.val = Thrown(InvalidAmountMsg)

\* success: true with the unparseable amount "x" has failed
C16_Witness ==
  /\ output.kind = "redeem"
  /\ input.success = "true"
  /\ input.amount = Str(<<"x">>)
  /\ Present(input) = {5}
  /\ output.val = Thrown(InvalidAmountMsg)

(***************************************************************************)
(* C17: a body is a success exactly if it carries one of the five signals  *)
(* (success === true, status === 'success', status.code === 'SUCCESS',     *)
(* status.message === 'success', a voucher object in data); a body         *)
(* without any of them fails with the rejection error, which carries the   *)
(* body's error text or the default text, and no amount is returned.       *)
(***************************************************************************)
\* the text of the rejection error for a body: the body's own, or the default
RejectionTextOf(data) ==
  CHOOSE t \in {data.message, data.error, data.status.message, RejectedMsg} :
    \/ t = data.message /\ t # ""
    \/ data.message = "" /\ t = data.error /\ t # ""
    \/ data.message = "" /\ data.error = "" /\ t = data.status.message /\ t # ""
    \/ data.message = "" /\ data.error = "" /\ data.status.message = ""
         /\ t = RejectedMsg

C17_SuccessIffSignal ==
  output.kind = "redeem"
    => IF SignalsOf(input) = {}
         THEN output.val = Thrown(RejectionTextOf(input))
       ELSE output.val.ok \/ output.val = Thrown(InvalidAmountMsg)

(***************************************************************************)
(* C19: extractVoucherHash tries its three patterns in order and returns   *)
(* what the first matching pattern captures; a link no pattern matches,    *)
(* the empty link among them, fails with the invalid-link error; the       *)
(* result depends on the link alone.                                       *)
(***************************************************************************)
\* what each pattern makes of the link, in the order of the patterns
RulesOn(link) == <<Pattern1(link), Pattern2(link), Pattern3(link)>>

C19_FirstMatchingRule ==
  output.kind = "hash"
    => LET matching == {k \in 1..3 : RulesOn(input)[k].ok}
       IN IF matching = {} THEN output.val = Thrown(InvalidLinkMsg)
          ELSE output.val =
                 Ok(RulesOn(input)[CHOOSE k \in matching :
                                     \A j \in matching : k <= j].value)

\* on v=a/v the first pattern has decided, not the second
C19_Witness ==
  /\ output.kind = "hash"
  /\ input = <<"v", "=", "a", "/", "v">>
  /\ Pattern2(input).ok
  /\ output.val = Ok(<<"a">>)

====
